---------------------------- MODULE Spec2Model ----------------------------
(***************************************************************************)
(* A model of py2n, an asyncio client library for 2N intercoms.            *)
(*                                                                         *)
(*   - Py2NConnectionData.__post_init__   (src/py2n/model.py)              *)
(*   - api_request and the fetch helpers  (src/py2n/utils.py)              *)
(*   - Py2NDevice, the device session     (src/py2n/__init__.py)           *)
(*                                                                         *)
(* Coroutines suspend only at `await aiohttp_session.request(...)`, so     *)
(* every action of the session runs one caller from one suspension point   *)
(* to the next (or to the end of the call).                                *)
(***************************************************************************)
EXTENDS Integers, Sequences, FiniteSets, TLC

VARIABLES
    options,        \* self.options, the Py2NConnectionData of the session
    initialized,    \* self.initialized
    initializing,   \* self._initializing
    last_error,     \* self._last_error
    data,           \* self._data: <<>> while the attribute is unset, else <<snapshot>>
    device,         \* the device at options.host: its hardware and how it may answer
    tasks,          \* the callers' coroutines: operation, suspension point, locals,
                    \* and how the caller's last call ended
    pin,            \* input of the pure function under check
    pout            \* its output

vars == <<options, initialized, initializing, last_error, data, device, tasks, pin, pout>>

-----------------------------------------------------------------------------
(* Bounds of the model *)

\* longest capability / status list handed to the merges
MaxLen == 2
\* longest status list a device answers to the session
MaxStatusLen == 1

-----------------------------------------------------------------------------
(* Python values *)

\* Python's None where a string is expected
None == "None"

\* api_request returning None (a success envelope without "result")
NoResult == [none |-> TRUE]

Get(rec, key, default) == IF key \in DOMAIN rec THEN rec[key] ELSE default

Err(type, detail) == [type |-> type, detail |-> detail]

\* the classes deriving from Py2NError
Py2NErrorTypes ==
    {"Py2NError", "NotInitialized", "DeviceConnectionError",
     "DeviceUnsupportedError", "DeviceApiError"}

IsPy2NError(err) == err.type \in Py2NErrorTypes

Raise(err) == [status |-> "raise", err |-> err]

Return(value) == [status |-> "return", value |-> value]

-----------------------------------------------------------------------------
(* exceptions.py: the vendor error codes *)

NOT_SUPPORTED == 1
AUTHORIZATION_REQUIRED == 9
INSUFFICIENT_PRIVILEGES == 10

ApiError ==
    (1 :> "NOT_SUPPORTED" @@ 2 :> "INVALID_PATH" @@ 3 :> "INVALID_METHOD" @@
     4 :> "DISABLED" @@ 7 :> "INVALID_CONNECTION_TYPE" @@
     8 :> "INVALID_AUTHENTICATION_METHOD" @@ 9 :> "AUTHORIZATION_REQUIRED" @@
     10 :> "INSUFFICIENT_PRIVILEGES" @@ 11 :> "MISSING_PARAMETER" @@
     12 :> "INVALID_PARAMETER_VALUE" @@ 13 :> "PARAMETER_DATA_TOO_BIG" @@
     14 :> "PROCESSING_ERROR" @@ 15 :> "NO_DATA_AVAILABLE" @@
     17 :> "PARAMETER_COLLISION" @@ 18 :> "REJECTED" @@
     19 :> "FILE_VERSION_UNSUPPORTED")

-----------------------------------------------------------------------------
(* model.py: Py2NConnectionData *)

\* __post_init__: ok = FALSE when the constructor raises ValueError.
\* has_digest is hasattr(aiohttp, "DigestAuthMiddleware"); auth and
\* digest_auth_middleware are the values the caller gave for these two
\* fields of the dataclass, None being their default.
PostInit(username, password, auth_method, has_digest, auth, digest_auth_middleware) ==
    LET base == [ok |-> TRUE, username |-> username, password |-> password,
                 auth_method |-> auth_method, auth |-> auth,
                 digest_auth_middleware |-> digest_auth_middleware]
        bad == [base EXCEPT !.ok = FALSE]
    IN  IF username # None
        THEN IF password = None
             THEN bad
             ELSE IF auth_method = "basic"
                  THEN [base EXCEPT !.auth = "BasicAuth",
                                    !.digest_auth_middleware = None]
                  ELSE IF auth_method = "digest"
                       THEN IF ~has_digest
                            THEN bad
                            ELSE [base EXCEPT
                                    !.auth = None,
                                    !.digest_auth_middleware = "DigestAuthMiddleware"]
                       ELSE bad
        ELSE base

-----------------------------------------------------------------------------
(* utils.py: api_request *)

CONTENT_TYPE == "application/json"

\* What the transport hands back for one request.
\*   kind "timeout"   asyncio.TimeoutError
\*   kind "connerr"   aiohttp.ClientConnectionError
\*   kind "oserror"   an OSError that is no aiohttp.ClientConnectionError
\*   kind "http"      a response: its content type and its JSON body, a
\*                    record holding the keys the body has
Http(ctype, body) == [kind |-> "http", ctype |-> ctype, body |-> body]

Ok(result) == Http(CONTENT_TYPE, [success |-> TRUE, result |-> result])

OkEmpty == Http(CONTENT_TYPE, [success |-> TRUE])

Fail(code) == Http(CONTENT_TYPE, [success |-> FALSE, error |-> [code |-> code]])

\* ApiError(code) without the `except ValueError`: any code becomes an API error
ClassifyError_NoValueError(code, has_credentials) ==
    IF code \in DOMAIN ApiError
    THEN IF code = INSUFFICIENT_PRIVILEGES /\ ~has_credentials
         THEN Err("DeviceApiError", ApiError[AUTHORIZATION_REQUIRED])
         ELSE Err("DeviceApiError", ApiError[code])
    ELSE Err("DeviceApiError", "UNKNOWN")

\* the classification without the look at the credentials
ClassifyError_NoReclassify(code, has_credentials) ==
    IF code \in DOMAIN ApiError
    THEN Err("DeviceApiError", ApiError[code])
    ELSE Err("DeviceUnsupportedError", "invalid error code")

\* lines 365-379: the classified error of a success=false envelope
ClassifyError(code, has_credentials) ==
    IF code \in DOMAIN ApiError
    THEN IF code = INSUFFICIENT_PRIVILEGES /\ ~has_credentials
         THEN Err("DeviceApiError", ApiError[AUTHORIZATION_REQUIRED])
         ELSE Err("DeviceApiError", ApiError[code])
    ELSE Err("DeviceUnsupportedError", "invalid error code")

HasCredentials(opts) == opts.username # None /\ opts.password # None

\* the pipeline with the content type looked at last
ApiRequest_ContentTypeLast(opts, resp) ==
    IF resp.kind \in {"timeout", "connerr"}
    THEN Raise(Err("DeviceConnectionError", resp.kind))
    ELSE IF resp.kind = "oserror"
    THEN Raise(Err("OSError", resp.kind))
    ELSE IF "success" \notin DOMAIN resp.body
    THEN Raise(Err("DeviceUnsupportedError", "response malformed"))
    ELSE IF ~resp.body.success
    THEN Raise(ClassifyError(resp.body.error.code, HasCredentials(opts)))
    ELSE IF resp.ctype # CONTENT_TYPE
    THEN Raise(Err("DeviceUnsupportedError", "invalid content type"))
    ELSE IF "result" \in DOMAIN resp.body
    THEN Return(resp.body.result)
    ELSE Return(NoResult)

\* str.startswith, a string being the sequence of its characters
StartsWith(str, prefix) ==
    /\ Len(str) >= Len(prefix)
    /\ SubSeq(str, 1, Len(prefix)) = prefix

\* "api/"
ApiRoot == <<"a", "p", "i", "/">>

\* the normalisation that prefixes without asking whether the root is there
NormalizeEndpoint_AlwaysPrefix(endpoint) ==
    LET stripped == IF StartsWith(endpoint, <<"/">>) THEN Tail(endpoint) ELSE endpoint
    IN  ApiRoot \o stripped

\* lines 330-334: one leading "/" is dropped, then "api/" is put in front
\* unless the endpoint starts with it
NormalizeEndpoint(endpoint) ==
    LET stripped == IF StartsWith(endpoint, <<"/">>) THEN Tail(endpoint) ELSE endpoint
    IN  IF ~StartsWith(stripped, ApiRoot) THEN ApiRoot \o stripped ELSE stripped

\* line 336: f"{options.protocol}://{options.host}/{endpoint}", protocol and
\* host each taken as one piece
Url(opts, endpoint) ==
    <<opts.protocol, ":", "/", "/", opts.host, "/">> \o endpoint

\* lines 340-345: the credentials among the keyword arguments of the request;
\* None stands for a keyword that is not passed
RequestKwargs(opts) ==
    [auth |-> opts.auth,
     middlewares |-> IF opts.auth_method = "digest" /\ opts.digest_auth_middleware # None
                     THEN <<opts.digest_auth_middleware>>
                     ELSE None]

\* lines 349-383: from the transport's answer to what api_request returns or raises
ApiRequest(opts, resp) ==
    IF resp.kind \in {"timeout", "connerr"}
    THEN Raise(Err("DeviceConnectionError", resp.kind))
    ELSE IF resp.kind = "oserror"
    THEN Raise(Err("OSError", resp.kind))
    ELSE IF resp.ctype # CONTENT_TYPE
    THEN Raise(Err("DeviceUnsupportedError", "invalid content type"))
    ELSE IF "success" \notin DOMAIN resp.body
    THEN Raise(Err("DeviceUnsupportedError", "response malformed"))
    ELSE IF ~resp.body.success
    THEN Raise(ClassifyError(resp.body.error.code, HasCredentials(opts)))
    ELSE IF "result" \in DOMAIN resp.body
    THEN Return(resp.body.result)
    ELSE Return(NoResult)

\* result[key] in a fetch helper: TypeError on None, KeyError on a missing key
Subscript(out, key) ==
    IF out.status = "raise" THEN out
    ELSE IF out.value = NoResult THEN Raise(Err("TypeError", "NoneType"))
    ELSE IF key \notin DOMAIN out.value THEN Raise(Err("KeyError", key))
    ELSE Return(out.value[key])

\* `except DeviceApiError: if err.error == NOT_SUPPORTED: return []`
NotSupportedAsEmpty(out) ==
    IF out.status = "raise" /\ out.err = Err("DeviceApiError", ApiError[NOT_SUPPORTED])
    THEN Return(<<>>)
    ELSE out

get_info(opts, resp) == ApiRequest(opts, resp)

get_status(opts, resp) == ApiRequest(opts, resp)

get_log_caps(opts, resp) ==
    LET out == ApiRequest(opts, resp)
    IN  IF out.status = "raise" THEN NotSupportedAsEmpty(out)
        ELSE Subscript(out, "events")

get_switch_status(opts, resp) ==
    LET out == ApiRequest(opts, resp)
    IN  IF out.status = "raise" THEN NotSupportedAsEmpty(out)
        ELSE Subscript(out, "switches")

get_switch_caps(opts, resp) ==
    LET out == ApiRequest(opts, resp)
    IN  IF out.status = "raise" THEN NotSupportedAsEmpty(out)
        ELSE Subscript(out, "switches")

\* the port capabilities fetched as the switch capabilities are
get_port_caps_NotSupportedAsEmpty(opts, resp) ==
    LET out == ApiRequest(opts, resp)
    IN  IF out.status = "raise" THEN NotSupportedAsEmpty(out)
        ELSE Subscript(out, "ports")

get_port_caps(opts, resp) == Subscript(ApiRequest(opts, resp), "ports")

get_port_status(opts, resp) == Subscript(ApiRequest(opts, resp), "ports")

-----------------------------------------------------------------------------
(* utils.py: the capability/status merges *)

\* lines 203-205: the dict comprehension; a later entry of an id replaces an earlier
StatusById(statuses, id) ==
    LET hits == {i \in 1..Len(statuses) : statuses[i].switch = id}
    IN  IF hits = {} THEN [absent |-> TRUE]
        ELSE statuses[CHOOSE i \in hits : \A j \in hits : j <= i]

\* lines 208-219: the Py2NDeviceSwitch of one capability entry
MergeSwitch(caps, statuses) ==
    LET status == StatusById(statuses, caps.switch)
    IN  [id      |-> caps.switch,
         enabled |-> caps.enabled,
         active  |-> Get(status, "active", FALSE),
         locked  |-> Get(status, "locked", FALSE),
         mode    |-> IF caps.enabled THEN caps.mode ELSE None]

\* the switch merge written as the port merge is: a capability without a
\* status is dropped
MergeSwitches_DropUnmatched(switch_caps, statuses) ==
    LET kept == SelectSeq(switch_caps,
                          LAMBDA c : \E j \in 1..Len(statuses) : statuses[j].switch = c.switch)
    IN  [i \in 1..Len(kept) |-> MergeSwitch(kept[i], statuses)]

\* lines 206-221
MergeSwitches(switch_caps, statuses) ==
    [i \in 1..Len(switch_caps) |-> MergeSwitch(switch_caps[i], statuses)]

\* the port merge written as the switch merge is: a capability without a
\* status yields a Port that is off
MergePorts_KeepUnmatched(caps, statuses) ==
    [i \in 1..Len(caps) |->
        LET hits == {j \in 1..Len(statuses) : statuses[j].port = caps[i].port}
        IN  [id |-> caps[i].port, type |-> caps[i].type,
             state |-> IF hits = {} THEN FALSE
                       ELSE statuses[CHOOSE j \in hits : \A k \in hits : j <= k].state]]

\* lines 266-272
RECURSIVE MergePorts(_, _)
MergePorts(caps, statuses) ==
    IF caps = <<>> THEN <<>>
    ELSE LET cap == Head(caps)
             hits == {i \in 1..Len(statuses) : statuses[i].port = cap.port}
             first == CHOOSE i \in hits : \A j \in hits : i <= j
         IN  (IF hits = {} THEN <<>>
              ELSE <<[id |-> cap.port, type |-> cap.type,
                      state |-> statuses[first].state]>>)
             \o MergePorts(Tail(caps), statuses)


-----------------------------------------------------------------------------
(* The device session: what the device may answer *)

\* the dataclass with its defaults: host, protocol "http", ssl_verify False
Py2NConnectionData(username, password, auth_method, unprivileged, has_digest) ==
    [host |-> "192.168.1.2", protocol |-> "http", ssl_verify |-> FALSE,
     unprivileged |-> unprivileged]
    @@ PostInit(username, password, auth_method, has_digest, None, None)

SeqsUpTo(S, n) == UNION {[1..k -> S] : k \in 0..n}

\* a disabled switch may come without "mode" (model.py line 57)
SwitchCapsEntries(ids) ==
    {[switch |-> i, enabled |-> TRUE, mode |-> "bistable"] : i \in ids} \cup
    {[switch |-> i, enabled |-> FALSE] : i \in ids}

SwitchStatusEntries(ids) ==
    {[switch |-> i, active |-> a, locked |-> l] :
        i \in ids, a \in BOOLEAN, l \in BOOLEAN}

PortCapsEntries(ids) == {[port |-> i, type |-> ty] : i \in ids, ty \in {"input", "output"}}

PortStatusEntries(ids) == {[port |-> i, state |-> st] : i \in ids, st \in BOOLEAN}

InfoPayload ==
    [deviceName |-> "2N IP Verso", variant |-> "Verso", serialNumber |-> "54-0000",
     macAddr |-> "7C-1E-B3", swVersion |-> "2.40", buildType |-> "release",
     hwVersion |-> "570v1"]

\* A device with one enabled switch and one port, whose capability endpoints
\* list any of them; it may time out, fail with an OSError, answer the
\* not-supported code, a code that is no vendor code, or a success envelope
\* without "result"; the clock is read at three instants.
EquippedDevice ==
    [switches |-> {[switch |-> 1, enabled |-> TRUE, mode |-> "bistable"]},
     ports |-> {"A"},
     faults |-> {[kind |-> "timeout"], [kind |-> "oserror"], Fail(1), Fail(99), OkEmpty},
     clock |-> {100, 105, 106}]

\* A device without switches and ports; a request may time out, fail in the
\* socket layer, or be answered with a code that is no vendor code.
BareDevice ==
    [switches |-> {}, ports |-> {},
     faults |-> {[kind |-> "timeout"], [kind |-> "oserror"], Fail(99)},
     clock |-> {100, 106}]

\* ids a status list may name that the capabilities do not
StraySwitchIds == {9}

StrayPortId == "Z"

\* seconds of uptime the device reports, and what datetime.now() may read
UpTimes == {100}

DeviceSwitchIds == {c.switch : c \in device.switches}

Payloads(pc) ==
    CASE pc = "get_info" -> {InfoPayload}
      [] pc = "get_log_caps" -> {[events |-> <<"KeyPressed">>]}
      [] pc = "get_port_caps" ->
            {[ports |-> l] :
                l \in SeqsUpTo(PortCapsEntries(device.ports), Cardinality(device.ports))}
      [] pc = "get_port_status" ->
            {[ports |-> l] :
                l \in SeqsUpTo(PortStatusEntries(device.ports \cup {StrayPortId}),
                               MaxStatusLen)}
      [] pc = "get_status" -> {[upTime |-> u] : u \in UpTimes}
      [] pc \in {"get_switch_caps", "gs_switch_caps"} ->
            {[switches |-> l] :
                l \in SeqsUpTo(device.switches, Cardinality(device.switches))}
      [] pc = "gs_switch_status" ->
            {[switches |-> l] :
                l \in SeqsUpTo(SwitchStatusEntries(DeviceSwitchIds \cup StraySwitchIds),
                               MaxStatusLen)}
      [] OTHER -> {}

\* what the transport may hand back for the request of `pc`; the control
\* endpoints answer a success envelope without "result"
Responses(pc) ==
    device.faults \cup {Ok(p) : p \in Payloads(pc)}
    \cup (IF Payloads(pc) = {} THEN {OkEmpty} ELSE {})

-----------------------------------------------------------------------------
(* __init__.py: Py2NDevice *)

NoErr == Err("", "")

\* A caller that has made no call yet. Beside the coroutine's locals the
\* record keeps what the properties read of a call:
\*   status, err, value   running, or how the call ended
\*   at                   the request the call was suspended at when it ended
\*   failed               the requests of the call that api_request answered
\*                        by raising, each with the error raised
\*   answer               what a partial refresh read: the status list, or
\*                        the new uptime
\* and, once the call has ended, gs_caps: the capabilities get_switches() got.
Idle ==
    [op |-> "none", pc |-> "idle", status |-> "none", err |-> NoErr, value |-> None,
     at |-> "idle", failed |-> {}, answer |-> <<>>,
     info |-> NoResult, log_caps |-> <<>>, port_caps |-> <<>>, ports |-> <<>>,
     uptime |-> <<>>, switch_caps |-> <<>>, gs_caps |-> <<>>, args |-> <<>>]

\* a caller inside `op`, suspended at the request of `pc`
Started(op, pc) == [Idle EXCEPT !.op = op, !.pc = pc, !.status = "running"]

\* a caller whose call of `op` has ended with a Return or a Raise, `from` the
\* coroutine `from`
Completed(op, out, from) ==
    [Idle EXCEPT !.op = op, !.status = out.status,
                 !.err = IF out.status = "raise" THEN out.err ELSE NoErr,
                 !.value = IF out.status = "return" THEN out.value ELSE None,
                 !.at = from.pc, !.failed = from.failed,
                 !.gs_caps = from.gs_caps, !.answer = from.answer, !.args = from.args]

\* __init__, lines 41-48: a fresh session for `callers`, of a device `dev`
SessionInit(callers, opts, dev) ==
    /\ options \in opts
    /\ device = dev
    /\ initialized = FALSE
    /\ initializing = FALSE
    /\ last_error = NoErr
    /\ data = <<>>
    /\ tasks = [t \in callers |-> Idle]

\* the operations whose body is update(): initialize() awaits it
RunsUpdate(op) == op \in {"initialize", "update"}

\* the operations that wrap their request in
\* `except Py2NError as err: self._last_error = err; raise`
RecordsError == {"initialize", "update", "restart", "audio_test", "set_switch"}

\* a raise without the `finally` of initialize
RaisesFrom_KeepsGuard(t, loc, err) ==
    /\ last_error' = IF loc.op \in RecordsError /\ IsPy2NError(err)
                     THEN err ELSE last_error
    /\ tasks' = [tasks EXCEPT ![t] = Completed(loc.op, Raise(err), loc)]
    /\ UNCHANGED <<options, device, initialized, initializing, data>>

\* The call of t, whose coroutine is `loc`, ends by raising err.
\* the raise of an update() that had emptied the snapshot before fetching
RaisesFrom_DropsSnapshot(t, loc, err) ==
    /\ last_error' = IF loc.op \in RecordsError /\ IsPy2NError(err)
                     THEN err ELSE last_error
    /\ initializing' = IF loc.op = "initialize" THEN FALSE ELSE initializing
    /\ tasks' = [tasks EXCEPT ![t] = Completed(loc.op, Raise(err), loc)]
    /\ data' = IF loc.op = "update" THEN <<>> ELSE data
    /\ UNCHANGED <<options, device, initialized>>

\* update: `except Py2NError as err: self._last_error = err; raise` (119-121);
\* initialize: `finally: self._initializing = False` (70-71);
\* the partial refreshes and set_port have no handler.
RaisesFrom(t, loc, err) ==
    /\ last_error' = IF loc.op \in RecordsError /\ IsPy2NError(err)
                     THEN err ELSE last_error
    /\ initializing' = IF loc.op = "initialize" THEN FALSE ELSE initializing
    /\ tasks' = [tasks EXCEPT ![t] = Completed(loc.op, Raise(err), loc)]
    /\ UNCHANGED <<options, device, initialized, data>>

Raises(t, err) == RaisesFrom(t, tasks[t], err)

\* The call of t, whose coroutine is `loc`, returns value; initialize sets
\* the flags (69-71).
ReturnsFrom(t, loc, value) ==
    /\ initialized' = IF loc.op = "initialize" THEN TRUE ELSE initialized
    /\ initializing' = IF loc.op = "initialize" THEN FALSE ELSE initializing
    /\ tasks' = [tasks EXCEPT ![t] = Completed(loc.op, Return(value), loc)]
    /\ UNCHANGED <<options, device, last_error>>

Returns(t, value) == ReturnsFrom(t, tasks[t], value)

\* the coroutine of t once the request at its suspension point is answered
\* by `resp`: an error api_request raises is noted
Heard(t, resp) ==
    LET out == ApiRequest(options, resp)
    IN  IF out.status = "raise"
        THEN [tasks[t] EXCEPT !.failed = @ \cup {[pc |-> tasks[t].pc, err |-> out.err]}]
        ELSE tasks[t]

\* t suspends at its next request, with its locals as in `loc`
Awaits(t, pc, loc) ==
    /\ tasks' = [tasks EXCEPT ![t] = [loc EXCEPT !.pc = pc]]
    /\ UNCHANGED <<options, device, initialized, initializing, last_error, data>>

\* lines 106-118: the snapshot; info[...] raises TypeError on None
Snapshot(info, uptime, pySwitches, log_caps, ports) ==
    [name |-> info.deviceName, model |-> info.variant, serial |-> info.serialNumber,
     host |-> options.host, mac |-> info.macAddr,
     firmware |-> <<info.swVersion, "-", info.buildType>>,
     hardware |-> info.hwVersion, uptime |-> uptime, switches |-> pySwitches,
     log_caps |-> log_caps, ports |-> ports]

StoreSnapshot(t, loc, pySwitches) ==
    IF loc.info = NoResult
    THEN RaisesFrom(t, loc, Err("TypeError", "NoneType"))
    ELSE /\ data' = <<Snapshot(loc.info, loc.uptime, pySwitches, loc.log_caps, loc.ports)>>
         /\ ReturnsFrom(t, loc, None)

\* lines 88-103: `switch['active']` subscripts a Py2NDeviceSwitch, which is a
\* dataclass and has no __getitem__: the first iteration raises TypeError
SwitchLoop(switches, switch_caps) ==
    IF switches = <<>> THEN Return(<<>>)
    ELSE Raise(Err("TypeError", "Py2NDeviceSwitch"))

\* lines 142: now - timedelta(seconds=status["upTime"])
NewUptime(now, status) ==
    LET up == Subscript(Return(status), "upTime")
    IN  IF up.status = "raise" THEN up ELSE Return(<<now - up.value>>)

\* initialize with its guard inside the try: the rejection runs the finally
Initialize_GuardInsideTry(t) ==
    /\ tasks[t].pc = "idle"
    /\ IF initializing
       THEN /\ tasks' = [tasks EXCEPT ![t] = Completed("initialize",
                                   Raise(Err("RuntimeError", "Already initializing")), Idle)]
            /\ initializing' = FALSE
            /\ UNCHANGED <<options, device, initialized, last_error, data>>
       ELSE /\ initializing' = TRUE
            /\ initialized' = FALSE
            /\ tasks' = [tasks EXCEPT ![t] = Started("initialize", "get_info")]
            /\ UNCHANGED <<options, device, last_error, data>>
    /\ UNCHANGED <<pin, pout>>

\* initialize() without `self.initialized = False` (line 66)
Initialize_KeepsReady(t) ==
    /\ tasks[t].pc = "idle"
    /\ IF initializing
       THEN /\ tasks' = [tasks EXCEPT ![t] = Completed("initialize",
                                   Raise(Err("RuntimeError", "Already initializing")), Idle)]
            /\ UNCHANGED <<options, device, initialized, initializing, last_error, data>>
       ELSE /\ initializing' = TRUE
            /\ tasks' = [tasks EXCEPT ![t] = Started("initialize", "get_info")]
            /\ UNCHANGED <<options, device, initialized, last_error, data>>
    /\ UNCHANGED <<pin, pout>>

\* lines 59-68
Initialize(t) ==
    /\ tasks[t].pc = "idle"
    /\ IF initializing
       THEN /\ tasks' = [tasks EXCEPT ![t] = Completed("initialize",
                                   Raise(Err("RuntimeError", "Already initializing")), Idle)]
            /\ UNCHANGED <<options, device, initialized, initializing, last_error, data>>
       ELSE /\ initializing' = TRUE
            /\ initialized' = FALSE
            /\ tasks' = [tasks EXCEPT ![t] = Started("initialize", "get_info")]
            /\ UNCHANGED <<options, device, last_error, data>>
    /\ UNCHANGED <<pin, pout>>

\* lines 73-76: update() has no `initialized` check
Update(t) ==
    /\ tasks[t].pc = "idle"
    /\ Awaits(t, "get_info", Started("update", "get_info"))
    /\ UNCHANGED <<pin, pout>>

\* line 76
RecvInfo(t) ==
    /\ tasks[t].pc = "get_info"
    /\ \E resp \in Responses("get_info") :
        LET out == get_info(options, resp)
            loc == Heard(t, resp)
        IN  IF out.status = "raise" THEN RaisesFrom(t, loc, out.err)
            ELSE Awaits(t, "get_log_caps", [loc EXCEPT !.info = out.value])
    /\ UNCHANGED <<pin, pout>>

\* the refresh without the `if(self.options.unprivileged)` branch
RecvLogCaps_IgnoresFlag(t) ==
    /\ tasks[t].pc = "get_log_caps"
    /\ \E resp \in Responses("get_log_caps") :
        LET out == get_log_caps(options, resp)
            loc == [Heard(t, resp) EXCEPT !.log_caps = out.value]
        IN  IF out.status = "raise" THEN RaisesFrom(t, Heard(t, resp), out.err)
            ELSE Awaits(t, "get_port_caps", loc)
    /\ UNCHANGED <<pin, pout>>

\* lines 77-84
RecvLogCaps(t) ==
    /\ tasks[t].pc = "get_log_caps"
    /\ \E resp \in Responses("get_log_caps") :
        LET out == get_log_caps(options, resp)
            loc == [Heard(t, resp) EXCEPT !.log_caps = out.value]
        IN  IF out.status = "raise" THEN RaisesFrom(t, Heard(t, resp), out.err)
            ELSE IF options.unprivileged
                 THEN StoreSnapshot(t, [loc EXCEPT !.ports = <<>>, !.uptime = <<>>], <<>>)
                 ELSE Awaits(t, "get_port_caps", loc)
    /\ UNCHANGED <<pin, pout>>

\* line 264
RecvPortCaps(t) ==
    /\ tasks[t].pc = "get_port_caps"
    /\ \E resp \in Responses("get_port_caps") :
        LET out == get_port_caps(options, resp)
            loc == Heard(t, resp)
        IN  IF out.status = "raise" THEN RaisesFrom(t, loc, out.err)
            ELSE Awaits(t, "get_port_status", [loc EXCEPT !.port_caps = out.value])
    /\ UNCHANGED <<pin, pout>>


\* lines 132-138: each status sets the state of the first port with its id
RECURSIVE ApplyPortStatuses(_, _)
ApplyPortStatuses(ports, statuses) ==
    IF statuses = <<>> THEN ports
    ELSE LET st == Head(statuses)
             hits == {i \in 1..Len(ports) : ports[i].id = st.port}
             first == CHOOSE i \in hits : \A j \in hits : i <= j
         IN  ApplyPortStatuses(
                 IF hits = {} THEN ports ELSE [ports EXCEPT ![first].state = st.state],
                 Tail(statuses))

\* lines 132-133: update_port_status() has no `initialized` check
UpdatePortStatus(t) ==
    /\ tasks[t].pc = "idle"
    /\ Awaits(t, "get_port_status", Started("update_port_status", "get_port_status"))
    /\ UNCHANGED <<pin, pout>>

\* lines 265-272 within update(); lines 133-138 within update_port_status()
RecvPortStatus(t) ==
    /\ tasks[t].pc = "get_port_status"
    /\ \E resp \in Responses("get_port_status") :
        LET out == get_port_status(options, resp)
            loc == Heard(t, resp)
        IN  IF out.status = "raise" THEN RaisesFrom(t, loc, out.err)
            ELSE IF RunsUpdate(tasks[t].op)
            THEN Awaits(t, "get_status",
                        [loc EXCEPT !.ports = MergePorts(tasks[t].port_caps, out.value),
                                    !.port_caps = <<>>])
            ELSE IF out.value = <<>>
            THEN ReturnsFrom(t, loc, None) /\ UNCHANGED data
            ELSE IF data = <<>>
            THEN RaisesFrom(t, [loc EXCEPT !.answer = out.value],
                            Err("AttributeError", "_data"))
            ELSE /\ data' = <<[data[1] EXCEPT !.ports = ApplyPortStatuses(@, out.value)]>>
                 /\ ReturnsFrom(t, [loc EXCEPT !.answer = out.value], None)
    /\ UNCHANGED <<pin, pout>>

UPTIME_THRESHOLD == 5

Abs(x) == IF x < 0 THEN -x ELSE x

\* the comparison made with the threshold itself counting as drift
Drifted_AtThreshold(new_uptime, uptime) == Abs(new_uptime - uptime) >= UPTIME_THRESHOLD

\* line 148: abs(delta.total_seconds()) > 5
Drifted(new_uptime, uptime) == Abs(new_uptime - uptime) > UPTIME_THRESHOLD

\* lines 145-146: update_system_status() has no `initialized` check
UpdateSystemStatus(t) ==
    /\ tasks[t].pc = "idle"
    /\ Awaits(t, "get_status", Started("update_system_status", "get_status"))
    /\ UNCHANGED <<pin, pout>>

\* lines 140-143 within update() (line 85); lines 146-149 within update_system_status()
RecvStatus(t) ==
    /\ tasks[t].pc = "get_status"
    /\ \E resp \in Responses("get_status"), now \in device.clock :
        LET out == get_status(options, resp)
            new == IF out.status = "raise" THEN out ELSE NewUptime(now, out.value)
            loc == Heard(t, resp)
        IN  IF new.status = "raise" THEN RaisesFrom(t, loc, new.err)
            ELSE IF RunsUpdate(tasks[t].op)
            THEN Awaits(t, "get_switch_caps", [loc EXCEPT !.uptime = new.value])
            ELSE IF data = <<>>
            THEN RaisesFrom(t, [loc EXCEPT !.answer = new.value],
                            Err("AttributeError", "_data"))
            ELSE IF data[1].uptime = <<>>
            THEN RaisesFrom(t, [loc EXCEPT !.answer = new.value],
                            Err("TypeError", "NoneType"))
            ELSE /\ data' = IF Drifted(new.value[1], data[1].uptime[1])
                            THEN <<[data[1] EXCEPT !.uptime = new.value]>>
                            ELSE data
                 /\ ReturnsFrom(t, [loc EXCEPT !.answer = new.value], None)
    /\ UNCHANGED <<pin, pout>>

\* line 86
RecvSwitchCaps(t) ==
    /\ tasks[t].pc = "get_switch_caps"
    /\ \E resp \in Responses("get_switch_caps") :
        LET out == get_switch_caps(options, resp)
            loc == Heard(t, resp)
        IN  IF out.status = "raise" THEN RaisesFrom(t, loc, out.err)
            ELSE Awaits(t, "gs_switch_caps", [loc EXCEPT !.switch_caps = out.value])
    /\ UNCHANGED <<pin, pout>>

\* lines 123-124: update_switch_status() has no `initialized` check and calls
\* get_switches(), which fetches the capabilities first
UpdateSwitchStatus(t) ==
    /\ tasks[t].pc = "idle"
    /\ Awaits(t, "gs_switch_caps", Started("update_switch_status", "gs_switch_caps"))
    /\ UNCHANGED <<pin, pout>>

\* utils.py line 201, in get_switches()
RecvGsSwitchCaps(t) ==
    /\ tasks[t].pc = "gs_switch_caps"
    /\ \E resp \in Responses("gs_switch_caps") :
        LET out == get_switch_caps(options, resp)
            loc == Heard(t, resp)
        IN  IF out.status = "raise" THEN RaisesFrom(t, loc, out.err)
            ELSE Awaits(t, "gs_switch_status", [loc EXCEPT !.gs_caps = out.value])
    /\ UNCHANGED <<pin, pout>>

\* lines 125-130: `switch_status["switch"]` subscripts a Py2NDeviceSwitch too;
\* it is evaluated once a snapshot switch is compared with a status
PartialSwitchLoop(statuses) ==
    IF statuses = <<>> THEN Return(None)
    ELSE IF data = <<>> THEN Raise(Err("AttributeError", "_data"))
    ELSE IF data[1].switches = <<>> THEN Return(None)
    ELSE Raise(Err("TypeError", "Py2NDeviceSwitch"))

\* utils.py lines 202-221, then lines 88-118 within update() or lines 125-130
\* within update_switch_status()
RecvGsSwitchStatus(t) ==
    /\ tasks[t].pc = "gs_switch_status"
    /\ \E resp \in Responses("gs_switch_status") :
        LET out == get_switch_status(options, resp)
            switches == MergeSwitches(tasks[t].gs_caps, out.value)
            loop == IF RunsUpdate(tasks[t].op)
                    THEN SwitchLoop(switches, tasks[t].switch_caps)
                    ELSE PartialSwitchLoop(switches)
            loc == IF RunsUpdate(tasks[t].op) \/ out.status = "raise" THEN Heard(t, resp)
                   ELSE [Heard(t, resp) EXCEPT !.answer = out.value]
        IN  IF out.status = "raise" THEN RaisesFrom(t, loc, out.err)
            ELSE IF loop.status = "raise" THEN RaisesFrom(t, loc, loop.err)
            ELSE IF RunsUpdate(tasks[t].op) THEN StoreSnapshot(t, loc, loop.value)
            ELSE ReturnsFrom(t, loc, None) /\ UNCHANGED data
    /\ UNCHANGED <<pin, pout>>

\* a call with the arguments `args` that ends before its first request
CompletesAtOnceWith(t, op, args, out) ==
    /\ tasks' = [tasks EXCEPT ![t] = Completed(op, out, [Idle EXCEPT !.args = args])]
    /\ UNCHANGED <<options, device, initialized, initializing, last_error, data>>

\* a call that ends before its first request
CompletesAtOnce(t, op, out) == CompletesAtOnceWith(t, op, <<>>, out)

\* lines 253-260
FindSwitch(switch_id) ==
    IF data = <<>> THEN Raise(Err("AttributeError", "_data"))
    ELSE IF data[1].switches = <<>> THEN Raise(Err("Py2NError", "no switches configured"))
    ELSE LET hits == {i \in 1..Len(data[1].switches) : data[1].switches[i].id = switch_id}
         IN  IF hits = {} THEN Raise(Err("Py2NError", "invalid switch id"))
             ELSE Return(data[1].switches[CHOOSE i \in hits : \A j \in hits : i <= j])

\* set_switch without `if not switch.enabled`
SetSwitch_NoEnabledCheck(t, switch_id, on) ==
    /\ tasks[t].pc = "idle"
    /\ LET switch == FindSwitch(switch_id)
           args == <<switch_id, on>>
       IN  IF ~initialized
           THEN CompletesAtOnceWith(t, "set_switch", args, Raise(Err("NotInitialized", "")))
           ELSE IF switch.status = "raise"
           THEN CompletesAtOnceWith(t, "set_switch", args, switch)
           ELSE Awaits(t, "set_switch",
                       [Started("set_switch", "set_switch") EXCEPT !.args = args])
    /\ UNCHANGED <<pin, pout>>

\* lines 173-183
SetSwitch(t, switch_id, on) ==
    /\ tasks[t].pc = "idle"
    /\ LET switch == FindSwitch(switch_id)
           args == <<switch_id, on>>
       IN  IF ~initialized
           THEN CompletesAtOnceWith(t, "set_switch", args, Raise(Err("NotInitialized", "")))
           ELSE IF switch.status = "raise"
           THEN CompletesAtOnceWith(t, "set_switch", args, switch)
           ELSE IF ~switch.value.enabled
           THEN CompletesAtOnceWith(t, "set_switch", args,
                                    Raise(Err("Py2NError", "switch disabled")))
           ELSE Awaits(t, "set_switch",
                       [Started("set_switch", "set_switch") EXCEPT !.args = args])
    /\ UNCHANGED <<pin, pout>>

\* the loop over the ports without the look at the type
FindPort_AnyType(port_id) ==
    IF data = <<>> THEN Raise(Err("AttributeError", "_data"))
    ELSE LET hits == {i \in 1..Len(data[1].ports) : data[1].ports[i].id = port_id}
             first == CHOOSE i \in hits : \A j \in hits : i <= j
         IN  IF hits = {} THEN Raise(Err("Py2NError", "unknown port id"))
             ELSE Return(data[1].ports[first])

\* lines 193-199: what the loop over the ports decides
FindPort(port_id) ==
    IF data = <<>> THEN Raise(Err("AttributeError", "_data"))
    ELSE LET hits == {i \in 1..Len(data[1].ports) : data[1].ports[i].id = port_id}
             first == CHOOSE i \in hits : \A j \in hits : i <= j
         IN  IF hits = {} THEN Raise(Err("Py2NError", "unknown port id"))
             ELSE IF data[1].ports[first].type = "output" THEN Return(data[1].ports[first])
             ELSE Raise(Err("Py2NError", "invalid operation: unable to set state on input port"))

\* lines 188-199
SetPort(t, port_id, on) ==
    /\ tasks[t].pc = "idle"
    /\ LET port == FindPort(port_id)
           args == <<port_id, on>>
       IN  IF ~initialized
           THEN CompletesAtOnceWith(t, "set_port", args, Raise(Err("NotInitialized", "")))
           ELSE IF port.status = "raise"
           THEN CompletesAtOnceWith(t, "set_port", args, port)
           ELSE Awaits(t, "set_port",
                       [Started("set_port", "set_port") EXCEPT !.args = args])
    /\ UNCHANGED <<pin, pout>>

\* lines 151-157
Restart(t) ==
    /\ tasks[t].pc = "idle"
    /\ IF ~initialized
       THEN CompletesAtOnce(t, "restart", Raise(Err("NotInitialized", "")))
       ELSE Awaits(t, "restart", Started("restart", "restart"))
    /\ UNCHANGED <<pin, pout>>

\* lines 162-168
AudioTest(t) ==
    /\ tasks[t].pc = "idle"
    /\ IF ~initialized
       THEN CompletesAtOnce(t, "audio_test", Raise(Err("NotInitialized", "")))
       ELSE Awaits(t, "test_audio", Started("audio_test", "test_audio"))
    /\ UNCHANGED <<pin, pout>>

\* a command that writes what it asked for into the snapshot once the device
\* has accepted it
RecvControl_Optimistic(t) ==
    /\ tasks[t].pc \in {"restart", "test_audio", "set_switch", "set_port"}
    /\ \E resp \in Responses(tasks[t].pc) :
        LET out == ApiRequest(options, resp)
            id == tasks[t].args[1]
            on == tasks[t].args[2]
        IN  IF out.status = "raise" THEN RaisesFrom(t, Heard(t, resp), out.err)
            ELSE /\ Returns(t, None)
                 /\ data' =
                      IF tasks[t].pc = "set_switch"
                      THEN <<[data[1] EXCEPT !.switches =
                                [i \in DOMAIN @ |-> IF @[i].id = id
                                                    THEN [@[i] EXCEPT !.active = on]
                                                    ELSE @[i]]]>>
                      ELSE IF tasks[t].pc = "set_port"
                      THEN <<[data[1] EXCEPT !.ports =
                                [i \in DOMAIN @ |-> IF @[i].id = id
                                                    THEN [@[i] EXCEPT !.state = on]
                                                    ELSE @[i]]]>>
                      ELSE data
    /\ UNCHANGED <<pin, pout>>

\* the request of a command is answered (utils.py lines 142-163, 223-237,
\* 274-282); restart, audio_test and set_switch record a Py2NError
\* (158-160, 169-171, 184-186), set_port has no handler (196-197)
RecvControl(t) ==
    /\ tasks[t].pc \in {"restart", "test_audio", "set_switch", "set_port"}
    /\ \E resp \in Responses(tasks[t].pc) :
        LET out == ApiRequest(options, resp)
        IN  IF out.status = "raise" THEN RaisesFrom(t, Heard(t, resp), out.err)
            ELSE Returns(t, None) /\ UNCHANGED data
    /\ UNCHANGED <<pin, pout>>

\* lines 224-230
GetSwitch(t, switch_id) ==
    /\ tasks[t].pc = "idle"
    /\ LET switch == FindSwitch(switch_id)
           args == <<switch_id>>
       IN  IF ~initialized
           THEN CompletesAtOnceWith(t, "get_switch", args, Raise(Err("NotInitialized", "")))
           ELSE IF switch.status = "raise"
           THEN CompletesAtOnceWith(t, "get_switch", args, switch)
           ELSE CompletesAtOnceWith(t, "get_switch", args,
                                    Return(IF switch.value.active THEN "True" ELSE "False"))
    /\ UNCHANGED <<pin, pout>>

\* ids a caller may pass: those the device has and one it has not
CallSwitchIds == DeviceSwitchIds \cup StraySwitchIds

CallPortIds == device.ports \cup {StrayPortId}

Next ==
    \E t \in DOMAIN tasks :
        \/ Initialize(t)
        \/ Update(t)
        \/ RecvInfo(t)
        \/ RecvLogCaps(t)
        \/ RecvPortCaps(t)
        \/ RecvPortStatus(t)
        \/ RecvStatus(t)
        \/ RecvSwitchCaps(t)
        \/ RecvGsSwitchCaps(t)
        \/ RecvGsSwitchStatus(t)
        \/ UpdateSwitchStatus(t)
        \/ UpdatePortStatus(t)
        \/ UpdateSystemStatus(t)
        \/ \E id \in CallSwitchIds, on \in BOOLEAN : SetSwitch(t, id, on)
        \/ \E id \in CallPortIds, on \in BOOLEAN : SetPort(t, id, on)
        \/ Restart(t)
        \/ AudioTest(t)
        \/ RecvControl(t)
        \/ \E id \in CallSwitchIds : GetSwitch(t, id)

NoPure == pin = <<>> /\ pout = <<>>

\* one caller of an equipped device: privileged with credentials, or
\* unprivileged without
Init ==
    /\ SessionInit({"t1"},
                   {Py2NConnectionData("user", "secret", "basic", FALSE, TRUE),
                    Py2NConnectionData(None, None, "basic", TRUE, TRUE)},
                   EquippedDevice)
    /\ NoPure

Spec == Init /\ [][Next]_vars

\* two callers of a bare device
InitConc ==
    /\ SessionInit({"t1", "t2"},
                   {Py2NConnectionData("user", "secret", "basic", FALSE, TRUE),
                    Py2NConnectionData(None, None, "basic", TRUE, TRUE)},
                   BareDevice)
    /\ NoPure

SpecConc == InitConc /\ [][Next]_vars

\* A device with an enabled and a disabled switch and two ports.
TwoSwitchDevice ==
    [switches |-> {[switch |-> 1, enabled |-> TRUE, mode |-> "bistable"],
                   [switch |-> 2, enabled |-> FALSE]},
     ports |-> {"A", "B"},
     faults |-> {[kind |-> "timeout"], Fail(99)},
     clock |-> {100, 103, 105, 106, 110}]

\* Py2NDeviceData.switches: lists of Py2NDeviceSwitch as get_switches()
\* builds them
SnapshotSwitches ==
    {MergeSwitches(caps, statuses) :
        caps \in {<<>>,
                  <<[switch |-> 1, enabled |-> TRUE, mode |-> "bistable"]>>,
                  <<[switch |-> 2, enabled |-> FALSE]>>,
                  <<[switch |-> 1, enabled |-> TRUE, mode |-> "bistable"],
                    [switch |-> 2, enabled |-> FALSE]>>},
        statuses \in SeqsUpTo(SwitchStatusEntries({1}), 1)}

\* Py2NDeviceData.ports: lists of Py2NDevicePort as get_ports() builds them
SnapshotPorts ==
    {MergePorts(caps, statuses) :
        caps \in {<<>>,
                  <<[port |-> "A", type |-> "output"]>>,
                  <<[port |-> "A", type |-> "input"]>>,
                  <<[port |-> "A", type |-> "output"], [port |-> "B", type |-> "input"]>>},
        statuses \in SeqsUpTo(PortStatusEntries({"A", "B"}), 2)}

\* A ready privileged session of one caller, with a snapshot. update() as
\* written stores no switch (lines 88-103 raise on the first one), so the
\* switches of the snapshot are drawn from the lists the field is declared
\* to hold.
InitReady ==
    /\ options = Py2NConnectionData("user", "secret", "basic", FALSE, TRUE)
    /\ device = TwoSwitchDevice
    /\ initialized = TRUE
    /\ initializing = FALSE
    /\ last_error = NoErr
    /\ \E switches \in SnapshotSwitches, ports \in SnapshotPorts :
          data = <<Snapshot(InfoPayload, <<0>>, switches, <<"KeyPressed">>, ports)>>
    /\ tasks = [t \in {"t1"} |-> Idle]
    /\ NoPure

\* the commands and the partial refreshes
NextReady ==
    \E t \in DOMAIN tasks :
        \/ \E id \in CallSwitchIds, on \in BOOLEAN : SetSwitch(t, id, on)
        \/ \E id \in CallPortIds, on \in BOOLEAN : SetPort(t, id, on)
        \/ \E id \in CallSwitchIds : GetSwitch(t, id)
        \/ Restart(t)
        \/ AudioTest(t)
        \/ RecvControl(t)
        \/ UpdateSwitchStatus(t)
        \/ RecvGsSwitchCaps(t)
        \/ RecvGsSwitchStatus(t)
        \/ UpdatePortStatus(t)
        \/ RecvPortStatus(t)
        \/ UpdateSystemStatus(t)
        \/ RecvStatus(t)

SpecReady == InitReady /\ [][NextReady]_vars


-----------------------------------------------------------------------------
(* Properties of the session's life cycle *)

Rejection == Err("RuntimeError", "Already initializing")

\* t is inside `op`, suspended at a request
Inside(t, op) == tasks[t].op = op /\ tasks[t].pc # "idle"

\* t's last call was `op` and has ended with `status`
Ended(t, op, status) ==
    tasks[t].op = op /\ tasks[t].pc = "idle" /\ tasks[t].status = status

\* in this step the idle caller t makes a call of `op`
Calls(t, op) == tasks[t].pc = "idle" /\ tasks'[t] # tasks[t] /\ tasks'[t].op = op

\* in this step the call of `op` that t is inside of ends with `status`
Ends(t, op, status) ==
    Inside(t, op) /\ tasks'[t].pc = "idle" /\ tasks'[t].status = status

\* the endpoints whose not-supported error a fetch helper reads as an empty list
Tolerant == {"get_log_caps", "get_switch_caps", "gs_switch_caps", "gs_switch_status"}

\* a failed request that the fetch helper answered with an empty list
Forgiven(f) == f.pc \in Tolerant /\ f.err = Err("DeviceApiError", "NOT_SUPPORTED")

\* an envelope without "result" was read: None was subscripted
Unanswered(err) == err = Err("TypeError", "NoneType")

\* C1: an operation other than initialize() that is called while the session
\* is not ready ends at once with NotInitialized, suspended at no request.
C1_NotReadyFailsLocally ==
    [][\A t \in DOMAIN tasks :
          (~initialized /\ \E op \in {"update", "update_switch_status", "update_port_status",
                                       "update_system_status", "set_switch", "set_port",
                                       "get_switch"} : Calls(t, op))
          => /\ tasks'[t].pc = "idle"
             /\ tasks'[t].status = "raise"
             /\ tasks'[t].err.type = "NotInitialized"]_vars

\* C2: a caller that calls initialize() while another caller is suspended
\* inside initialize() ends at once with "Already initializing", at no
\* request, and changes neither the guard, the ready flag, the snapshot, the
\* last error nor the other caller; the guard is held as long as a caller is
\* inside initialize(), and an initialize() that returns leaves the session
\* ready with the guard released.
C2_SecondInitializeRejected ==
    [][\A t \in DOMAIN tasks :
          /\ (Calls(t, "initialize") /\ \E u \in DOMAIN tasks \ {t} : Inside(u, "initialize"))
             => /\ tasks'[t].pc = "idle"
                /\ tasks'[t].status = "raise"
                /\ tasks'[t].err = Rejection
                /\ tasks'[t].at = "idle"
                /\ \A u \in DOMAIN tasks \ {t} : tasks'[u] = tasks[u]
                /\ UNCHANGED <<initialized, initializing, last_error, data>>
          /\ Inside(t, "initialize") => initializing
          /\ Ends(t, "initialize", "return") => (initialized' /\ ~initializing')]_vars

\* the second caller was rejected and the first one's initialize() returned
C2_Witness ==
    /\ Ended("t2", "initialize", "raise")
    /\ tasks["t2"].err = Rejection
    /\ Ended("t1", "initialize", "return")
    /\ initialized
    /\ ~initializing

\* C3: when initialize() has returned, the session is ready and every
\* request of the sequence was answered without error, or with the
\* not-supported error on the log-capability, switch-capability or
\* switch-status endpoint (read as an empty list); when a request failed in
\* any other way, initialize() has raised that error and the session is not
\* ready.
C3_ReadyOnlyAfterCleanSequence ==
    \A t \in DOMAIN tasks :
        /\ Ended(t, "initialize", "return") =>
              (initialized /\ ~initializing /\ \A f \in tasks[t].failed : Forgiven(f))
        /\ (tasks[t].op = "initialize" /\ tasks[t].pc = "idle") =>
              \A f \in tasks[t].failed :
                  ~Forgiven(f) => /\ tasks[t].status = "raise"
                                  /\ tasks[t].err = f.err
                                  /\ tasks[t].at = f.pc
                                  /\ ~initialized

\* initialize() returned although the log capabilities were not supported
C3_Witness ==
    /\ Ended("t1", "initialize", "return")
    /\ initialized
    /\ \E f \in tasks["t1"].failed : f.pc = "get_log_caps" /\ Forgiven(f)

\* C3 as stated: when initialize() has returned, no request of the sequence
\* had failed.
C3_NoRequestFailed ==
    \A t \in DOMAIN tasks : Ended(t, "initialize", "return") => tasks[t].failed = {}

\* C4: initialize() on a privileged session fails only when a request
\* failed, an envelope came without its result, or another initialize() was
\* running: when every endpoint answers well it ends ready.
C4_ReadyWhenAllAnswerWell ==
    \A t \in DOMAIN tasks :
        (~options.unprivileged /\ Ended(t, "initialize", "raise")) =>
            \/ tasks[t].failed # {}
            \/ Unanswered(tasks[t].err)
            \/ tasks[t].err = Rejection

\* C5: an initialize() that raises releases the guard and leaves the session
\* not ready; a call of initialize() is rejected only while another caller is
\* inside initialize(), otherwise it starts the sequence; and an initialize()
\* that returns leaves the session ready.
C5_GuardReleasedOnFailure ==
    [][\A t \in DOMAIN tasks :
          /\ Ends(t, "initialize", "raise") => (~initializing' /\ ~initialized')
          /\ (Calls(t, "initialize") /\ ~\E u \in DOMAIN tasks \ {t} : Inside(u, "initialize"))
             => /\ tasks'[t].status = "running"
                /\ tasks'[t].pc = "get_info"
                /\ initializing'
          /\ Ends(t, "initialize", "return") => initialized']_vars

\* the second caller's initialize() failed at a request; the first caller's,
\* which can only have run after it, returned
C5_Witness ==
    /\ Ended("t2", "initialize", "raise")
    /\ tasks["t2"].err # Rejection
    /\ tasks["t2"].at # "idle"
    /\ Ended("t1", "initialize", "return")
    /\ initialized

\* C10: a full refresh of a privileged session whose requests were all
\* answered well returns, and the snapshot then holds exactly one Switch for
\* each switch id of the capabilities, whatever the statuses say.
C10_OneSwitchPerCapability ==
    \A t \in DOMAIN tasks :
        (/\ ~options.unprivileged
         /\ tasks[t].op \in {"initialize", "update"}
         /\ tasks[t].pc = "idle"
         /\ tasks[t].at = "gs_switch_status"
         /\ tasks[t].failed = {}
         /\ ~Unanswered(tasks[t].err)) =>
            LET ids == {tasks[t].gs_caps[i].switch : i \in 1..Len(tasks[t].gs_caps)}
            IN  /\ tasks[t].status = "return"
                /\ data # <<>>
                /\ {data[1].switches[i].id : i \in 1..Len(data[1].switches)} = ids
                /\ Len(data[1].switches) = Cardinality(ids)

-----------------------------------------------------------------------------
(* Properties of the refreshes and of the commands *)

\* the requests of the feature families: log capabilities, IO ports, switches
FamilyRequests ==
    {"get_log_caps", "get_port_caps", "get_port_status",
     "get_switch_caps", "gs_switch_caps", "gs_switch_status"}

\* C12: a full refresh does not end with the not-supported error of a
\* capability or status endpoint of a feature family: the family is read as
\* empty and the refresh goes on.
C12_NotSupportedNotPropagated ==
    \A t \in DOMAIN tasks :
        (tasks[t].op \in {"initialize", "update"} /\ tasks[t].pc = "idle"
         /\ tasks[t].at \in FamilyRequests) =>
            ~(tasks[t].status = "raise"
              /\ tasks[t].err = Err("DeviceApiError", "NOT_SUPPORTED"))

\* C13: with the unprivileged flag set, a full refresh is suspended at, and
\* ends at, no request but those for the system info and the log
\* capabilities; when it has returned, the snapshot has no switches, no ports
\* and no uptime.
C13_UnprivilegedSkipsFetches ==
    options.unprivileged =>
        \A t \in DOMAIN tasks :
            tasks[t].op \in {"initialize", "update"} =>
                /\ tasks[t].pc \in {"idle", "get_info", "get_log_caps"}
                /\ tasks[t].at \in {"idle", "get_info", "get_log_caps"}
                /\ (tasks[t].pc = "idle" /\ tasks[t].status = "return") =>
                      /\ data # <<>>
                      /\ data[1].switches = <<>>
                      /\ data[1].ports = <<>>
                      /\ data[1].uptime = <<>>

\* an unprivileged update() has returned after the log capabilities
C13_Witness ==
    /\ options.unprivileged
    /\ Ended("t1", "update", "return")
    /\ tasks["t1"].at = "get_log_caps"
    /\ data # <<>>
    /\ data[1].uptime = <<>>
    /\ data[1].log_caps # <<>>

\* the places of the snapshot's switches with the id `id`
SwitchHits(id) == {i \in 1..Len(data[1].switches) : data[1].switches[i].id = id}

\* C14: a set_switch call on a ready session suspends at the switch control
\* request exactly when the snapshot holds a Switch of the given id that is
\* enabled; otherwise it ends at once, at no request, with "no switches
\* configured" for an empty list, "invalid switch id" for an id not in the
\* list and "switch disabled" for a disabled switch.
C14_SetSwitchGuards ==
    [][\A t \in DOMAIN tasks :
          (initialized /\ Calls(t, "set_switch")) =>
              LET id == tasks'[t].args[1]
                  switches == data[1].switches
                  hits == SwitchHits(id)
                  fails(detail) == /\ tasks'[t].pc = "idle"
                                   /\ tasks'[t].status = "raise"
                                   /\ tasks'[t].err = Err("Py2NError", detail)
              IN  /\ tasks'[t].pc \in {"idle", "set_switch"}
                  /\ tasks'[t].pc = "set_switch" <=>
                        (\E i \in hits : switches[i].enabled)
                  /\ switches = <<>> => fails("no switches configured")
                  /\ (switches # <<>> /\ hits = {}) => fails("invalid switch id")
                  /\ (hits # {} /\ \A i \in hits : ~switches[i].enabled) =>
                        fails("switch disabled")]_vars

\* set_switch on the disabled switch 2 has ended with "switch disabled"
C14_Witness ==
    /\ Ended("t1", "set_switch", "raise")
    /\ tasks["t1"].err = Err("Py2NError", "switch disabled")
    /\ tasks["t1"].at = "idle"
    /\ \E i \in SwitchHits(tasks["t1"].args[1]) : ~data[1].switches[i].enabled

\* the places of the snapshot's ports with the id `id`
PortHits(id) == {i \in 1..Len(data[1].ports) : data[1].ports[i].id = id}

\* C15: a set_port call on a ready session suspends at the IO control request
\* exactly when the snapshot holds a Port of the given id whose type is
\* output; for an input port it ends at once with "invalid operation" and for
\* an id not in the snapshot with "unknown port id", at no request.
C15_SetPortGuards ==
    [][\A t \in DOMAIN tasks :
          (initialized /\ Calls(t, "set_port")) =>
              LET id == tasks'[t].args[1]
                  ports == data[1].ports
                  hits == PortHits(id)
                  fails(detail) == /\ tasks'[t].pc = "idle"
                                   /\ tasks'[t].status = "raise"
                                   /\ tasks'[t].err = Err("Py2NError", detail)
              IN  /\ tasks'[t].pc \in {"idle", "set_port"}
                  /\ tasks'[t].pc = "set_port" <=>
                        (\E i \in hits : ports[i].type = "output")
                  /\ hits = {} => fails("unknown port id")
                  /\ (hits # {} /\ \A i \in hits : ports[i].type # "output") =>
                        fails("invalid operation: unable to set state on input port")]_vars

\* set_port on an input port has ended with "invalid operation"
C15_Witness ==
    /\ Ended("t1", "set_port", "raise")
    /\ tasks["t1"].err = Err("Py2NError", "invalid operation: unable to set state on input port")
    /\ tasks["t1"].at = "idle"
    /\ \E i \in PortHits(tasks["t1"].args[1]) : data[1].ports[i].type = "input"

\* C16: a set_switch or set_port call leaves the snapshot as it is, from
\* the call to its end; and get_switch on a ready session ends at once, at
\* no request, leaves the snapshot as it is and, for an id of the snapshot,
\* returns the cached active value of that Switch. So get_switch returns the
\* same value before and after a command, until a refresh writes the snapshot.
C16_NoOptimisticUpdate ==
    [][\A t \in DOMAIN tasks :
          /\ (Calls(t, "set_switch") \/ Calls(t, "set_port")
              \/ Inside(t, "set_switch") \/ Inside(t, "set_port")) => data' = data
          /\ (initialized /\ Calls(t, "get_switch")) =>
                LET hits == SwitchHits(tasks'[t].args[1])
                IN  /\ tasks'[t].pc = "idle"
                    /\ tasks'[t].at = "idle"
                    /\ data' = data
                    /\ hits # {} =>
                          /\ tasks'[t].status = "return"
                          /\ \E i \in hits :
                                tasks'[t].value =
                                    (IF data[1].switches[i].active THEN "True" ELSE "False")]_vars

\* set_switch(1, on) has returned and the snapshot still says switch 1 is
\* not active
C16_Witness ==
    /\ Ended("t1", "set_switch", "return")
    /\ tasks["t1"].args = <<1, TRUE>>
    /\ \E i \in SwitchHits(1) : ~data[1].switches[i].active

\* C18: update_switch_status is suspended only at the switch status request
\* and update_port_status only at the IO status request: neither is ever
\* suspended at, or ends at, the request of a capability endpoint.
C18_StatusEndpointOnly ==
    \A t \in DOMAIN tasks :
        /\ tasks[t].op = "update_switch_status" =>
              (tasks[t].pc \in {"idle", "gs_switch_status"}
               /\ tasks[t].at \in {"idle", "gs_switch_status"})
        /\ tasks[t].op = "update_port_status" =>
              (tasks[t].pc \in {"idle", "get_port_status"}
               /\ tasks[t].at \in {"idle", "get_port_status"})

\* C19: when update_system_status returns, having computed the uptime
\* `answer`, the stored uptime is the computed one if the two differ by more
\* than 5 seconds and is the one stored before if they differ by 5 seconds
\* or less; no other field of the snapshot changes, and an
\* update_system_status that raises changes nothing.
C19_UptimeDriftThreshold ==
    [][\A t \in DOMAIN tasks :
          /\ Ends(t, "update_system_status", "return") =>
                LET fresh == tasks'[t].answer[1]
                    stored == data[1].uptime[1]
                IN  /\ data' # <<>>
                    /\ [data'[1] EXCEPT !.uptime = data[1].uptime] = data[1]
                    /\ data'[1].uptime =
                          IF fresh - stored > 5 \/ stored - fresh > 5
                          THEN <<fresh>> ELSE <<stored>>
          /\ Ends(t, "update_system_status", "raise") => data' = data]_vars

\* an uptime computed exactly 5 seconds off the stored one was not stored
C19_Witness ==
    /\ Ended("t1", "update_system_status", "return")
    /\ tasks["t1"].answer = <<5>>
    /\ data[1].uptime = <<0>>

\* C20: when a call of initialize, update, restart, audio_test, set_switch
\* or set_port has ended by raising the error that the request pipeline
\* raised for its last request, the session's last error is that error.
C20_LastErrorHoldsRaised ==
    \A t \in DOMAIN tasks :
        (/\ tasks[t].op \in {"initialize", "update", "restart", "audio_test",
                             "set_switch", "set_port"}
         /\ tasks[t].pc = "idle"
         /\ tasks[t].status = "raise"
         /\ IsPy2NError(tasks[t].err)
         /\ [pc |-> tasks[t].at, err |-> tasks[t].err] \in tasks[t].failed) =>
            last_error = tasks[t].err

-----------------------------------------------------------------------------
(* The pure functions, applied to inputs drawn at the start *)

\* a module that holds no session
NoSession ==
    SessionInit({}, {Py2NConnectionData(None, None, "basic", FALSE, TRUE)}, BareDevice)

\* the codes a failing envelope carries
MaxCode == 20

MergeIds == {1, 2}

MergeSwitchCaps ==
    SwitchCapsEntries(MergeIds)
    \cup {[switch |-> i, enabled |-> FALSE, mode |-> "monostable"] : i \in MergeIds}

\* a status entry may lack "active" and "locked" (status.get, lines 216-217)
MergeSwitchStatuses == SwitchStatusEntries(MergeIds) \cup {[switch |-> i] : i \in MergeIds}

MergePortIds == {"A", "B"}

InitMerge ==
    /\ NoSession
    /\ pout = <<>>
    /\ \/ pin \in [fn : {"get_switches"},
                  caps : SeqsUpTo(MergeSwitchCaps, MaxLen),
                  statuses : SeqsUpTo(MergeSwitchStatuses, MaxLen)]
       \/ pin \in [fn : {"get_ports"},
                  caps : SeqsUpTo(PortCapsEntries(MergePortIds), MaxLen),
                  statuses : SeqsUpTo(PortStatusEntries(MergePortIds), MaxLen)]

\* utils.py lines 198-221, on the two lists its requests returned
GetSwitches ==
    /\ pin.fn = "get_switches"
    /\ pout = <<>>
    /\ pout' = <<MergeSwitches(pin.caps, pin.statuses)>>
    /\ UNCHANGED <<options, device, initialized, initializing, last_error, data, tasks, pin>>

\* utils.py lines 263-272, on the two lists its requests returned
GetPorts ==
    /\ pin.fn = "get_ports"
    /\ pout = <<>>
    /\ pout' = <<MergePorts(pin.caps, pin.statuses)>>
    /\ UNCHANGED <<options, device, initialized, initializing, last_error, data, tasks, pin>>

NextMerge == GetSwitches \/ GetPorts

SpecMerge == InitMerge /\ [][NextMerge]_vars

\* what the transport may hand back, with every code up to MaxCode
PipelineResponses ==
    {[kind |-> "timeout"], [kind |-> "connerr"], [kind |-> "oserror"],
     Http("text/html", [success |-> TRUE]),
     Http("text/html", [success |-> TRUE, result |-> [upTime |-> 100]]),
     Http("text/html", [success |-> FALSE, error |-> [code |-> 12]]),
     Http("text/html", [result |-> [upTime |-> 100]]),
     Http(CONTENT_TYPE, [result |-> [upTime |-> 100]]),
     Http(CONTENT_TYPE, [error |-> [code |-> 12]]),
     OkEmpty, Ok([upTime |-> 100])}
    \cup {Fail(code) : code \in 0..MaxCode}

InitRequest ==
    /\ NoSession
    /\ pout = <<>>
    /\ pin \in [fn : {"api_request"},
                username : {None, "user"}, password : {None, "secret"},
                auth_method : {"basic", "digest", "ntlm"}, has_digest : BOOLEAN,
                auth : {None, "BasicAuth"},
                digest_auth_middleware : {None, "DigestAuthMiddleware"},
                resp : PipelineResponses]

\* Py2NConnectionData(host, username, password, auth, digest_auth_middleware,
\* auth_method)
Construct ==
    /\ pin.fn = "api_request"
    /\ pout = <<>>
    /\ pout' = <<PostInit(pin.username, pin.password, pin.auth_method, pin.has_digest,
                          pin.auth, pin.digest_auth_middleware)>>
    /\ UNCHANGED <<options, device, initialized, initializing, last_error, data, tasks, pin>>

\* api_request(session, options, endpoint) with the constructed options:
\* pout[2] is what the call returns or raises, pout[3] the credentials its
\* request carried
Request ==
    /\ pin.fn = "api_request"
    /\ Len(pout) = 1
    /\ pout[1].ok
    /\ pout' = pout \o <<ApiRequest(pout[1], pin.resp), RequestKwargs(pout[1])>>
    /\ UNCHANGED <<options, device, initialized, initializing, last_error, data, tasks, pin>>

NextRequest == Construct \/ Request

SpecRequest == InitRequest /\ [][NextRequest]_vars

\* ---- the URL of a request

\* longest path a caller asks for
MaxPath == 4

PathChars == {"/", "a", "p", "i", "s"}

Paths == SeqsUpTo(PathChars, MaxPath)

\* the forms a caller may give a path: bare, "/" + p, "api/" + p, "/api/" + p
EndpointForms == {<<>>, <<"/">>, ApiRoot, <<"/">> \o ApiRoot}

InitEndpoint ==
    /\ NoSession
    /\ pout = <<>>
    /\ pin \in [fn : {"endpoint"}, path : Paths, form : EndpointForms,
                protocol : {"http", "https"}]

\* api_request(session, options, form + path): the endpoint as normalised
\* and the URL requested
BuildUrl ==
    /\ pin.fn = "endpoint"
    /\ pout = <<>>
    /\ LET opts == [host |-> "192.168.1.2", protocol |-> pin.protocol]
           endpoint == NormalizeEndpoint(pin.form \o pin.path)
       IN  pout' = <<[endpoint |-> endpoint, url |-> Url(opts, endpoint)]>>
    /\ UNCHANGED <<options, device, initialized, initializing, last_error, data, tasks, pin>>

\* api_request again, with the endpoint the first call normalised
BuildUrlAgain ==
    /\ pin.fn = "endpoint"
    /\ Len(pout) = 1
    /\ LET opts == [host |-> "192.168.1.2", protocol |-> pin.protocol]
           endpoint == NormalizeEndpoint(pout[1].endpoint)
       IN  pout' = Append(pout, [endpoint |-> endpoint, url |-> Url(opts, endpoint)])
    /\ UNCHANGED <<options, device, initialized, initializing, last_error, data, tasks, pin>>

NextEndpoint == BuildUrl \/ BuildUrlAgain

SpecEndpoint == InitEndpoint /\ [][NextEndpoint]_vars

-----------------------------------------------------------------------------
(* Properties of the connection data and of the request pipeline *)

Constructed == pin.fn = "api_request" /\ Len(pout) >= 1

Requested == pin.fn = "api_request" /\ Len(pout) = 3

\* the answer is a JSON envelope with success = false
IsFailure(resp) ==
    /\ resp.kind = "http"
    /\ resp.ctype = "application/json"
    /\ "success" \in DOMAIN resp.body
    /\ ~resp.body.success

\* the values of the ApiError enumeration (exceptions.py lines 30-45)
VendorCodes == {1, 2, 3, 4, 7, 8, 9, 10, 11, 12, 13, 14, 15, 17, 18, 19}

\* credentials were supplied: the configuration has a username and a password
Supplied == pin.username # None /\ pin.password # None

\* C6: constructing the connection data with exactly one of username and
\* password fails validation; with both (and an auth method that can be
\* built) or with neither it succeeds.
C6_OneOfTwoFails ==
    Constructed =>
        LET u == pin.username # None
            p == pin.password # None
            usable == pin.auth_method = "basic"
                      \/ (pin.auth_method = "digest" /\ pin.has_digest)
        IN  /\ (u # p) => ~pout[1].ok
            /\ ((u /\ p /\ usable) \/ (~u /\ ~p)) => pout[1].ok

\* C7: a success=false envelope whose code is no vendor code makes the
\* request pipeline raise DeviceUnsupportedError, never a DeviceApiError.
C7_UnknownCodeUnsupported ==
    (Requested /\ IsFailure(pin.resp) /\ pin.resp.body.error.code \notin VendorCodes) =>
        /\ pout[2].status = "raise"
        /\ pout[2].err.type = "DeviceUnsupportedError"
        /\ pout[2].err.type # "DeviceApiError"

C7_Witness ==
    /\ Requested
    /\ pin.resp = Fail(16)
    /\ pout[2] = Raise(Err("DeviceUnsupportedError", "invalid error code"))

\* C8: the insufficient-privileges code is classified authorization-required
\* when the configuration supplied no credentials and insufficient-privileges
\* when it supplied them; every other vendor code is classified as its own
\* kind, whatever the credentials.
C8_Reclassification ==
    (Requested /\ IsFailure(pin.resp) /\ pin.resp.body.error.code \in VendorCodes) =>
        LET code == pin.resp.body.error.code
        IN  /\ pout[2].status = "raise"
            /\ pout[2].err.type = "DeviceApiError"
            /\ pout[2].err.detail =
                  IF code = 10
                  THEN IF Supplied THEN "INSUFFICIENT_PRIVILEGES"
                       ELSE "AUTHORIZATION_REQUIRED"
                  ELSE ApiError[code]

C8_Witness ==
    /\ Requested
    /\ pin.resp = Fail(10)
    /\ ~Supplied
    /\ pin.username = None /\ pin.password = None
    /\ pout[2] = Raise(Err("DeviceApiError", "AUTHORIZATION_REQUIRED"))

-----------------------------------------------------------------------------
(* Properties of the merges *)

MergedSwitches == pin.fn = "get_switches" /\ pout # <<>>

HasStatus(statuses, id) == \E j \in 1..Len(statuses) : statuses[j].switch = id

\* C9: get_switches returns one Switch per capability entry, in the order of
\* the capability list; its active/locked are those of the status entry with
\* the same switch id (the last one, should the id come twice), or false and
\* false when no status entry has the id; its mode is the capability's mode
\* when enabled and None otherwise.
C9_SwitchMerge ==
    MergedSwitches =>
        LET caps == pin.caps
            st == pin.statuses
            sw == pout[1]
        IN  /\ Len(sw) = Len(caps)
            /\ \A i \in 1..Len(caps) :
                /\ sw[i].id = caps[i].switch
                /\ sw[i].enabled = caps[i].enabled
                /\ sw[i].mode = (IF caps[i].enabled THEN caps[i].mode ELSE None)
                /\ ~HasStatus(st, caps[i].switch) =>
                      (sw[i].active = FALSE /\ sw[i].locked = FALSE)
                /\ HasStatus(st, caps[i].switch) =>
                      \E j \in 1..Len(st) :
                        /\ st[j].switch = caps[i].switch
                        /\ \A k \in (j + 1)..Len(st) : st[k].switch # caps[i].switch
                        /\ sw[i].active = Get(st[j], "active", FALSE)
                        /\ sw[i].locked = Get(st[j], "locked", FALSE)

\* two capabilities, the first without a status and disabled, the second
\* with one that says active
C9_Witness ==
    /\ MergedSwitches
    /\ Len(pin.caps) = 2
    /\ ~HasStatus(pin.statuses, pin.caps[1].switch)
    /\ ~pin.caps[1].enabled
    /\ HasStatus(pin.statuses, pin.caps[2].switch)
    /\ Len(pout[1]) = 2
    /\ pout[1][1].mode = None
    /\ ~pout[1][1].active
    /\ pout[1][2].active

MergedPorts == pin.fn = "get_ports" /\ pout # <<>>

HasPortStatus(statuses, id) == \E j \in 1..Len(statuses) : statuses[j].port = id

\* C11: get_ports returns a Port for a capability entry exactly when a
\* status entry has the same port id: the Ports are those of the matched
\* capability entries, one each and in the order of the capability list, with
\* the type of the capability and the state of the (first) status entry of
\* that id; a capability entry without a status entry yields no Port.
C11_PortMerge ==
    MergedPorts =>
        LET st == pin.statuses
            matched == SelectSeq(pin.caps, LAMBDA c : HasPortStatus(st, c.port))
            ports == pout[1]
        IN  /\ Len(ports) = Len(matched)
            /\ \A i \in 1..Len(matched) :
                /\ ports[i].id = matched[i].port
                /\ ports[i].type = matched[i].type
                /\ \E j \in 1..Len(st) :
                    /\ st[j].port = matched[i].port
                    /\ \A k \in 1..(j - 1) : st[k].port # matched[i].port
                    /\ ports[i].state = st[j].state

\* two capabilities, the first without a status: only the second yields a Port
C11_Witness ==
    /\ MergedPorts
    /\ Len(pin.caps) = 2
    /\ ~HasPortStatus(pin.statuses, pin.caps[1].port)
    /\ HasPortStatus(pin.statuses, pin.caps[2].port)
    /\ Len(pout[1]) = 1
    /\ pout[1][1].id = pin.caps[2].port
    /\ pout[1][1].state

-----------------------------------------------------------------------------
(* Properties of the partial refreshes *)

\* the last entry of the status list `st` whose `key` is `id`
LastOf(st, key, id) ==
    st[CHOOSE j \in 1..Len(st) :
          st[j][key] = id /\ \A k \in (j + 1)..Len(st) : st[k][key] # id]

-----------------------------------------------------------------------------
(* Properties of the request pipeline, continued *)

\* C21: a response is classified by the first of these that applies: a
\* content type that is not JSON raises DeviceUnsupportedError; an envelope
\* without "success" raises DeviceUnsupportedError; success = false raises
\* the classified error; success = true with "result" returns the result;
\* success = true without "result" returns None.
C21_ResponseClassification ==
    (Requested /\ pin.resp.kind = "http") =>
        LET body == pin.resp.body
            json == pin.resp.ctype = "application/json"
            enveloped == "success" \in DOMAIN body
        IN  /\ ~json =>
                 pout[2] = Raise(Err("DeviceUnsupportedError", "invalid content type"))
            /\ (json /\ ~enveloped) =>
                 pout[2] = Raise(Err("DeviceUnsupportedError", "response malformed"))
            /\ (json /\ enveloped /\ ~body.success) =>
                 /\ pout[2].status = "raise"
                 /\ pout[2].err.type = IF body.error.code \in VendorCodes
                                       THEN "DeviceApiError" ELSE "DeviceUnsupportedError"
                 /\ body.error.code \notin VendorCodes =>
                        pout[2].err.detail = "invalid error code"
            /\ (json /\ enveloped /\ body.success /\ "result" \in DOMAIN body) =>
                 pout[2] = Return(body.result)
            /\ (json /\ enveloped /\ body.success /\ "result" \notin DOMAIN body) =>
                 pout[2] = Return(NoResult)

\* a page that is no JSON and says success = false is refused for its
\* content type
C21_Witness ==
    /\ Requested
    /\ pin.resp = Http("text/html", [success |-> FALSE, error |-> [code |-> 12]])
    /\ pout[2] = Raise(Err("DeviceUnsupportedError", "invalid content type"))

\* C22: every failure of the connection (a timeout, a client connection
\* error, a plain socket or OS error) reaches the caller as
\* DeviceConnectionError.
C22_ConnectionFailuresWrapped ==
    (Requested /\ pin.resp.kind \in {"timeout", "connerr", "oserror"}) =>
        /\ pout[2].status = "raise"
        /\ pout[2].err.type = "DeviceConnectionError"

\* C24: no request carries both authentication mechanisms: basic-auth
\* credentials are attached only when auth_method is basic, the digest
\* mechanism only when auth_method is digest, never both, and a configuration
\* without credentials attaches neither.
C24_OneMechanismPerRequest ==
    Requested =>
        LET opts == pout[1]
            basic == pout[3].auth # None
            digest == pout[3].middlewares # None
        IN  /\ basic => opts.auth_method = "basic"
            /\ digest => opts.auth_method = "digest"
            /\ ~(basic /\ digest)
            /\ ~HasCredentials(opts) => (~basic /\ ~digest)

\* C23: for a path p that starts neither with "/" nor with "api/", the
\* endpoints p, "/" + p, "api/" + p and "/api/" + p all give the URL
\* {protocol}://{host}/api/{p}; and normalising a normalised endpoint changes
\* nothing.
C23_EndpointNormalization ==
    (pin.fn = "endpoint" /\ pout # <<>>) =>
        /\ (~StartsWith(pin.path, <<"/">>) /\ ~StartsWith(pin.path, <<"a", "p", "i", "/">>)) =>
              pout[1].url = <<pin.protocol, ":", "/", "/", "192.168.1.2", "/",
                              "a", "p", "i", "/">> \o pin.path
        /\ Len(pout) = 2 => pout[2] = pout[1]

\* the path "api" asked for as "api/api" is requested as it is, twice
C23_Witness ==
    /\ pin.fn = "endpoint"
    /\ pin.path = <<"a", "p", "i">>
    /\ pin.form = <<"a", "p", "i", "/">>
    /\ Len(pout) = 2
    /\ pout[2].endpoint = <<"a", "p", "i", "/", "a", "p", "i">>

-----------------------------------------------------------------------------
(* Properties of the snapshot and of the flags *)

\* C25: an update() on a ready session that fails, at whichever request,
\* leaves the snapshot as it was and the session ready; the snapshot is
\* replaced only in the step in which the update() returns, after the last
\* fetch of its sequence was answered.
C25_UpdateAllOrNothing ==
    [][\A t \in DOMAIN tasks :
          (initialized /\ Inside(t, "update")) =>
              /\ Ends(t, "update", "raise") => (data' = data /\ initialized')
              /\ data' # data =>
                    /\ Ends(t, "update", "return")
                    /\ tasks[t].pc = IF options.unprivileged
                                     THEN "get_log_caps" ELSE "gs_switch_status"
              /\ initialized']_vars

\* a ready session whose update() failed at the status request, after the
\* info, the log capabilities and the ports were fetched
C25_Witness ==
    /\ Ended("t1", "update", "raise")
    /\ tasks["t1"].at = "get_status"
    /\ initialized
    /\ data # <<>>

\* C26: in every reachable state a ready session has a stored snapshot, and
\* the session is never ready and initializing at once, however the calls of
\* two callers interleave at their requests.
C26_ReadyHasSnapshot ==
    /\ initialized => data # <<>>
    /\ ~(initialized /\ initializing)

\* the session is ready, made so by the first caller's initialize(), while
\* the second caller is suspended inside an update()
C26_Witness ==
    /\ initialized
    /\ data # <<>>
    /\ Ended("t1", "initialize", "return")
    /\ Inside("t2", "update")

=============================================================================
